---- MODULE Spec2Model ----
(***************************************************************************)
(* pi-pulse: the stream-ingestion core.                                    *)
(*                                                                         *)
(* stream_consumer (src/app/streams/consumer.py) is the reconnecting       *)
(* supervisor of one SSE endpoint: it opens a streaming GET, frames and    *)
(* decodes the lines it receives, hands every decoded record to on_data    *)
(* under the session's reactive lock, and reconnects with an exponential   *)
(* back-off when the attempt raises.                                       *)
(*                                                                         *)
(* A line is a sequence of one-character strings, so that the prefix test  *)
(* and the slice of consumer.py:21-22 and the JSON decoding of             *)
(* consumer.py:24 are computed, not assumed.                               *)
(***************************************************************************)
EXTENDS Integers, Sequences, FiniteSets, TLC

(***************************************************************************)
(* Bounds of the model.                                                    *)
(***************************************************************************)
\* lines read on one connection before the model lets it only end or fail
MaxLines == 3
\* consecutive failed attempts (no success in between) the model follows
MaxFailures == 7
\* records the handlers of one session store before the model lets no
\* further data line arrive
MaxRecords == 2
\* consecutive failed attempts the model follows for a supervisor of a
\* session
MaxSessionFailures == 2

(***************************************************************************)
(* Program constants.                                                      *)
(***************************************************************************)
\* consumer.py:13 and :19, backoff = 1
InitialBackoff == 1
\* consumer.py:46, min(backoff * 2, 30)
BackoffCap == 30
\* server.py:35 and :62-63, deque(maxlen=60)
HistoryMax == 60

Min(a, b) == IF a <= b THEN a ELSE b

(***************************************************************************)
(* Line framing: line.startswith("data: ") and line[len("data: "):].       *)
(***************************************************************************)
Quote == "\""

DataPrefix == <<"d", "a", "t", "a", ":", " ">>

StartsWith(line, prefix) ==
    /\ Len(line) >= Len(prefix)
    /\ SubSeq(line, 1, Len(prefix)) = prefix

\* the slip of a slice that starts one character late
DropPrefixOneMore(line, prefix) == SubSeq(line, Len(prefix) + 2, Len(line))

\* the slice line[len(prefix):]
DropPrefix(line, prefix) == SubSeq(line, Len(prefix) + 1, Len(line))

(***************************************************************************)
(* json.loads on the subset of JSON the model's lines are written in:      *)
(* objects, arrays, strings without escapes, unsigned integers and null,   *)
(* with blanks between tokens.  A decoded value is a record of one shape   *)
(* for every JSON type, so that any two values can be compared.            *)
(***************************************************************************)
JsonNull == [type |-> "null", num |-> 0, str |-> <<>>, items |-> <<>>, members |-> {}]

JsonNumber(n) == [JsonNull EXCEPT !.type = "number", !.num = n]

JsonString(s) == [JsonNull EXCEPT !.type = "string", !.str = s]

JsonArray(xs) == [JsonNull EXCEPT !.type = "array", !.items = xs]

\* a dict: the set of its <<key, value>> items
JsonObject(ms) == [JsonNull EXCEPT !.type = "object", !.members = ms]

Digits == <<"0", "1", "2", "3", "4", "5", "6", "7", "8", "9">>

IsDigit(c) == \E n \in 1..Len(Digits) : Digits[n] = c

DigitValue(c) == (CHOOSE n \in 1..Len(Digits) : Digits[n] = c) - 1

\* a failed parse (json.JSONDecodeError)
NoParse == [ok |-> FALSE, val |-> JsonNull, next |-> 0]

Parsed(v, n) == [ok |-> TRUE, val |-> v, next |-> n]

RECURSIVE SkipWs(_, _)
SkipWs(s, i) ==
    IF i <= Len(s) /\ s[i] = " " THEN SkipWs(s, i + 1) ELSE i

RECURSIVE ScanInt(_, _, _)
ScanInt(s, i, acc) ==
    IF i <= Len(s) /\ IsDigit(s[i])
    THEN ScanInt(s, i + 1, acc * 10 + DigitValue(s[i]))
    ELSE Parsed(JsonNumber(acc), i)

\* an integer; a leading 0 is the whole number
ParseNumber(s, i) ==
    IF s[i] = "0" THEN Parsed(JsonNumber(0), i + 1) ELSE ScanInt(s, i, 0)

\* s[i] is the opening quote
ParseString(s, i) ==
    LET closing == {j \in (i + 1)..Len(s) : s[j] = Quote}
    IN  IF closing = {}
        THEN NoParse
        ELSE LET j == CHOOSE k \in closing : \A m \in closing : k <= m
             IN  Parsed(JsonString(SubSeq(s, i + 1, j - 1)), j + 1)

NullWord == <<"n", "u", "l", "l">>

RECURSIVE ParseValue(_, _)
RECURSIVE ParseElements(_, _, _)
RECURSIVE ParseMembers(_, _, _)

\* after "[" or ",": one element, then "," or "]"
ParseElements(s, i, acc) ==
    LET v == ParseValue(s, SkipWs(s, i))
        j == SkipWs(s, v.next)
    IN  IF ~v.ok \/ j > Len(s)
        THEN NoParse
        ELSE IF s[j] = ","
             THEN ParseElements(s, j + 1, Append(acc, v.val))
             ELSE IF s[j] = "]"
                  THEN Parsed(JsonArray(Append(acc, v.val)), j + 1)
                  ELSE NoParse

\* after "{" or ",": "key" : value, then "," or "}"; a repeated key keeps
\* its last value
ParseMembers(s, i, acc) ==
    LET k == SkipWs(s, i)
    IN  IF k > Len(s) \/ s[k] # Quote
        THEN NoParse
        ELSE LET key == ParseString(s, k)
                 c == SkipWs(s, key.next)
             IN  IF ~key.ok \/ c > Len(s) \/ s[c] # ":"
                 THEN NoParse
                 ELSE LET v == ParseValue(s, SkipWs(s, c + 1))
                          j == SkipWs(s, v.next)
                          ms == {m \in acc : m[1] # key.val.str}
                                    \cup {<<key.val.str, v.val>>}
                      IN  IF ~v.ok \/ j > Len(s)
                          THEN NoParse
                          ELSE IF s[j] = ","
                               THEN ParseMembers(s, j + 1, ms)
                               ELSE IF s[j] = "}"
                                    THEN Parsed(JsonObject(ms), j + 1)
                                    ELSE NoParse

\* the value that starts at s[i]
ParseValue(s, i) ==
    IF i > Len(s)
    THEN NoParse
    ELSE IF s[i] = "{"
    THEN LET j == SkipWs(s, i + 1)
         IN  IF j <= Len(s) /\ s[j] = "}"
             THEN Parsed(JsonObject({}), j + 1)
             ELSE ParseMembers(s, i + 1, {})
    ELSE IF s[i] = "["
    THEN LET j == SkipWs(s, i + 1)
         IN  IF j <= Len(s) /\ s[j] = "]"
             THEN Parsed(JsonArray(<<>>), j + 1)
             ELSE ParseElements(s, i + 1, <<>>)
    ELSE IF s[i] = Quote
    THEN ParseString(s, i)
    ELSE IF IsDigit(s[i])
    THEN ParseNumber(s, i)
    ELSE IF SubSeq(s, i, Min(Len(s), i + Len(NullWord) - 1)) = NullWord
    THEN Parsed(JsonNull, i + Len(NullWord))
    ELSE NoParse

\* json.loads(text): one value with blanks around it and nothing after it
JsonLoads(text) ==
    LET v == ParseValue(text, SkipWs(text, 1))
    IN  IF v.ok /\ SkipWs(text, v.next) = Len(text) + 1
        THEN [ok |-> TRUE, val |-> v.val]
        ELSE [ok |-> FALSE, val |-> JsonNull]

(***************************************************************************)
(* The lines a server sends in the model.                                  *)
(***************************************************************************)
\* event: ignored
LineEvent ==
    <<"e", "v", "e", "n", "t", ":", " ", "i", "g", "n", "o", "r", "e", "d">>

\* {"cpu": n
CpuText(n) == <<"{", Quote, "c", "p", "u", Quote, ":", " ">> \o n

\* data: {"cpu": 1}
LineCpu1 == DataPrefix \o CpuText(<<"1", "}">>)

\* data: {"cpu": 2}
LineCpu2 == DataPrefix \o CpuText(<<"2", "}">>)

\* data:{"cpu": 2}   (no blank after the colon)
LineNoSpace == <<"d", "a", "t", "a", ":">> \o CpuText(<<"2", "}">>)

\* data: {"cpu":     (cut short)
LineCut == DataPrefix \o CpuText(<<>>)

\* data: 7
LineSeven == DataPrefix \o <<"7">>

SampleLines == {LineEvent, LineCpu1, LineCpu2, LineNoSpace, LineCut, LineSeven}

(***************************************************************************)
(* State.  Every per-supervisor variable is a function on the labels of    *)
(* the supervisors that run.                                               *)
(***************************************************************************)
VARIABLES
    pc,               \* where the supervisor is suspended:
                      \*   "connecting"  entering client.stream(...)  (:16-17)
                      \*   "reading"     awaiting the next line       (:20)
                      \*   "lock_wait"   awaiting reactive.lock()     (:32)
                      \*   "on_data"     awaiting on_data(data)       (:33)
                      \*   "flush"       awaiting reactive.flush()    (:34)
                      \*   "sleeping"    awaiting asyncio.sleep       (:45)
                      \*   "done"        the coroutine has ended
    backoff,          \* the local backoff (:13)
    cancelRequested,  \* Task.cancel() was called on the supervisor's task
    outcome,          \* how the coroutine ended: "running", "returned"
                      \* (the return of :36) or "raised" (an exception left it)
    lockHolder,       \* the supervisor inside "async with reactive.lock()"
    lockWaiters,      \* the supervisors queued on the lock, oldest first
    received,         \* the lines read on the current (or last) connection
    delivered,        \* the values on_data was called with on that connection
    inflight,         \* on_data calls begun whose critical section is still open
    delays,           \* the delays passed to asyncio.sleep since the start or
                      \* the last successful status check
    resetFrom,        \* the backoff that the last "backoff = 1" of :19 replaced,
                      \* 0 while no status check has succeeded
    cancelledAt,      \* the suspension point at which Task.cancel() found the task
    pending,          \* the decoded record a supervisor holds while it waits
                      \* for the lock
    cancelCalls,      \* the calls of Task.cancel() made on each task
    tasks,            \* the labels of the tasks server() created, in creation
                      \* order (server.py:79-102); empty when stream_consumer
                      \* is awaited by itself
    history,          \* history[kind][key]: the deque of (timestamp, record)
                      \* pairs of one endpoint (server.py:35, :62-63)
    latest,           \* latest[kind][key]: the reactive.Value of one endpoint
                      \* (server.py:32-34, :56-61)
    clock,            \* the readings of datetime.now() taken so far
    sessionEnded,     \* the callback of session.on_ended has run
    framed,           \* the line given to extract_sse_payload and its result
    warned,           \* the payloads of the "Malformed SSE packet" warnings
                      \* logged on the current (or last) connection (:26-30)
    input,            \* the inputs of the page the chart effects read:
                      \* device, pulse_chart, sen66_chart, chart_style
    pulse_widget,     \* the FigureWidget of the pulse chart: its traces
                      \* (data), layout.annotations and layout.template
    pulse_state,      \* the chart, dev and tpl the pulse chart was built for
    sen66_widget,     \* the FigureWidget of the SEN66 chart
    sen66_state,      \* the chart, dev and tpl the SEN66 chart was built for
    stale,            \* the chart effects that are invalidated and will run
                      \* in the flush under way
    lastRun           \* the effect that ran in the last step, the branch it
                      \* took and whether it returned or raised

\* what the handlers write
store == <<history, latest, clock>>

\* what no step of a supervisor writes
\* what a supervisor keeps for itself, and the lock
consumer == <<pc, backoff, cancelRequested, outcome, lockHolder, lockWaiters,
              received, delivered, inflight, delays, resetFrom, cancelledAt,
              pending, cancelCalls, warned>>

\* what the chart effects read and write
charts == <<input, pulse_widget, pulse_state, sen66_widget, sen66_state,
            stale, lastRun>>

wiring == <<tasks, sessionEnded, framed, charts>>

vars == <<pc, backoff, cancelRequested, outcome, lockHolder, lockWaiters,
          received, delivered, inflight, delays, resetFrom, cancelledAt,
          pending, cancelCalls, store, wiring, warned>>

NoTask == "none"

\* the label of the supervisor that runs alone (stream_consumer awaited by
\* itself, as the unit tests run it)
SoloLabel == "pulse-11"

Supervisors == DOMAIN pc

SuspensionPoints == {"connecting", "reading", "lock_wait", "on_data", "flush", "sleeping"}

\* the suspension points inside the try block of :15-34
InTry == {"connecting", "reading", "lock_wait", "on_data", "flush"}

\* the suspension points inside "async with client.stream(...) as response"
\* after the status check
Connected == {"reading", "lock_wait", "on_data", "flush"}

Range(seq) == {seq[i] : i \in 1..Len(seq)}

\* no record: the local variable data is not bound
NoRecord == [JsonNull EXCEPT !.type = "none"]

\* extract_sse_payload has not been called
NotFramed == [line |-> <<>>, called |-> FALSE, found |-> FALSE, text |-> <<>>]

(***************************************************************************)
(* The session's wiring (server.py).  A configuration is the pair of the   *)
(* keys of DEVICES and of SEN66_DEVICES, each in the order of its dict.    *)
(***************************************************************************)
\* the kinds of endpoint: pi-pulse, SEN66 and SEN66 number concentration
EndpointKinds == {"pulse", "sen66", "sen66-nc"}

\* f"pulse-{k}", f"sen66-{k}", f"sen66-nc-{k}" (server.py:82, :89, :97)
Label(kind, key) == kind \o "-" \o key

\* the devices that have an endpoint of the kind (server.py:84, :92, :100)
KeysOf(kind, cfg) == IF kind = "pulse" THEN cfg[1] ELSE cfg[2]

\* the slip of a task list without the number-concentration streams
TasksWithoutNc(cfg) ==
    [i \in 1..Len(cfg[1]) |-> Label("pulse", cfg[1][i])]
    \o [i \in 1..Len(cfg[2]) |-> Label("sen66", cfg[2][i])]

\* tasks = [...] + [...] + [...] (server.py:79-102)
Tasks(cfg) ==
    [i \in 1..Len(cfg[1]) |-> Label("pulse", cfg[1][i])]
    \o [i \in 1..Len(cfg[2]) |-> Label("sen66", cfg[2][i])]
    \o [i \in 1..Len(cfg[2]) |-> Label("sen66-nc", cfg[2][i])]

\* _pulse_default (server.py:24-31)
PulseDefault ==
    JsonObject({
        << <<"c", "p", "u">>,
           JsonNumber(0) >>,
        << <<"m", "e", "m">>,
           JsonNumber(0) >>,
        << <<"t", "e", "m", "p">>,
           JsonNumber(0) >>,
        << <<"c", "p", "u", "_", "f", "r", "e", "q", "_", "a", "v", "g", "_", "m", "h", "z">>,
           JsonNumber(0) >>,
        << <<"n", "e", "t", "_", "r", "x", "_", "b", "p", "s", "_", "t", "o", "t", "a", "l">>,
           JsonNumber(0) >>,
        << <<"n", "e", "t", "_", "t", "x", "_", "b", "p", "s", "_", "t", "o", "t", "a", "l">>,
           JsonNumber(0) >>})

\* _sen66_default (server.py:38-48)
Sen66Default ==
    JsonObject({
        << <<"t", "e", "m", "p", "e", "r", "a", "t", "u", "r", "e", "_", "c">>,
           JsonNumber(0) >>,
        << <<"h", "u", "m", "i", "d", "i", "t", "y", "_", "r", "h">>,
           JsonNumber(0) >>,
        << <<"c", "o", "2", "_", "p", "p", "m">>,
           JsonNumber(0) >>,
        << <<"v", "o", "c", "_", "i", "n", "d", "e", "x">>,
           JsonNumber(0) >>,
        << <<"n", "o", "x", "_", "i", "n", "d", "e", "x">>,
           JsonNumber(0) >>,
        << <<"p", "m", "1", "_", "0", "_", "u", "g", "m", "3">>,
           JsonNumber(0) >>,
        << <<"p", "m", "2", "_", "5", "_", "u", "g", "m", "3">>,
           JsonNumber(0) >>,
        << <<"p", "m", "4", "_", "0", "_", "u", "g", "m", "3">>,
           JsonNumber(0) >>,
        << <<"p", "m", "1", "0", "_", "0", "_", "u", "g", "m", "3">>,
           JsonNumber(0) >>})

\* _sen66_nc_default (server.py:49-55)
Sen66NcDefault ==
    JsonObject({
        << <<"n", "c", "_", "p", "m", "0", "_", "5", "_", "p", "c", "m", "3">>,
           JsonNumber(0) >>,
        << <<"n", "c", "_", "p", "m", "1", "_", "0", "_", "p", "c", "m", "3">>,
           JsonNumber(0) >>,
        << <<"n", "c", "_", "p", "m", "2", "_", "5", "_", "p", "c", "m", "3">>,
           JsonNumber(0) >>,
        << <<"n", "c", "_", "p", "m", "4", "_", "0", "_", "p", "c", "m", "3">>,
           JsonNumber(0) >>,
        << <<"n", "c", "_", "p", "m", "1", "0", "_", "0", "_", "p", "c", "m", "3">>,
           JsonNumber(0) >>})

\* the initial value of the reactive.Value of a kind (server.py:33, :57, :60)
DefaultOf(kind) ==
    CASE kind = "pulse" -> PulseDefault
      [] kind = "sen66" -> Sen66Default
      [] kind = "sen66-nc" -> Sen66NcDefault

(***************************************************************************)
(* The charts as server() creates them (server.py:105-123).                *)
(***************************************************************************)
\* Python's None
NoneValue == "None"

\* {"chart": None, "dev": None, "tpl": None}
NoChartState == [chart |-> NoneValue, dev |-> NoneValue, tpl |-> NoneValue]

\* go.FigureWidget(layout=dict(autosize=True, height=400)): no trace, no
\* annotation, no template of its own
EmptyWidget == [data |-> <<>>, annotations |-> <<>>, template |-> NoneValue]

\* the two reactive effects that draw the charts
Effects == {"pulse", "sen66"}

NoRun == [effect |-> "none", path |-> "none", ok |-> TRUE]

\* the inputs as the page is first shown (layout.py:187-230)
InitialInput ==
    [device |-> "11", pulse_chart |-> "temp", sen66_chart |-> "temp_hum",
     chart_style |-> "plotly_dark"]

\* both effects are created invalidated and run in the first flush
ChartsInit ==
    /\ input = InitialInput
    /\ pulse_widget = EmptyWidget
    /\ pulse_state = NoChartState
    /\ sen66_widget = EmptyWidget
    /\ sen66_state = NoChartState
    /\ stale = Effects
    /\ lastRun = NoRun

\* the state server() builds before it starts the streams (server.py:24-63)
ServerInit(cfg) ==
    /\ history = [kind \in EndpointKinds |->
                     [k \in Range(KeysOf(kind, cfg)) |-> <<>>]]
    /\ latest = [kind \in EndpointKinds |->
                    [k \in Range(KeysOf(kind, cfg)) |-> DefaultOf(kind)]]
    /\ clock = 0
    /\ sessionEnded = FALSE
    /\ ChartsInit

\* the supervisors at their first suspension: backoff = 1 (:13), inside the
\* first client.stream(...) (:16-17)
InitOf(labels) ==
    /\ pc = [t \in labels |-> "connecting"]
    /\ backoff = [t \in labels |-> InitialBackoff]
    /\ cancelRequested = [t \in labels |-> FALSE]
    /\ outcome = [t \in labels |-> "running"]
    /\ lockHolder = NoTask
    /\ lockWaiters = <<>>
    /\ received = [t \in labels |-> <<>>]
    /\ delivered = [t \in labels |-> <<>>]
    /\ inflight = [t \in labels |-> 0]
    /\ delays = [t \in labels |-> <<>>]
    /\ resetFrom = [t \in labels |-> 0]
    /\ cancelledAt = [t \in labels |-> "none"]
    /\ pending = [t \in labels |-> NoRecord]
    /\ cancelCalls = [t \in labels |-> 0]
    /\ warned = [t \in labels |-> <<>>]

\* stream_consumer awaited by itself, with an on_data and a sleep that
\* record their arguments: no server(), no task list
Init ==
    /\ InitOf({SoloLabel})
    /\ tasks = <<>>
    /\ ServerInit(<< <<>>, <<>> >>)
    /\ framed = NotFramed

\* the supervisor runs by itself, outside a session: the model keeps the
\* lines it reads, the records it delivers and the delays it sleeps
Recorded(t) == t \notin Range(tasks)

\* the lines the endpoint of a supervisor sends: every sample to the
\* supervisor that runs by itself; to a supervisor of a session one line
\* without the prefix, one malformed data line and one valid data line
LinesOf(t) ==
    IF Recorded(t) THEN SampleLines ELSE {LineEvent, LineCut, LineCpu1}

\* log.append(x) of the recording stand-ins
Log(t, log, x) == IF Recorded(t) THEN [log EXCEPT ![t] = Append(@, x)] ELSE log

\* the supervisor can take a step of its own: it is suspended and no
\* CancelledError is pending at its suspension point
Runs(t, at) ==
    /\ t \in Supervisors
    /\ pc[t] = at
    /\ ~cancelRequested[t]

\* a CancelledError is pending at the supervisor's suspension point
MustCancel(t) ==
    /\ t \in Supervisors
    /\ cancelRequested[t]

(***************************************************************************)
(* except Exception (:37-45): log the retry warning with the current       *)
(* backoff and suspend in asyncio.sleep(backoff).                          *)
(***************************************************************************)
Retry(t) ==
    /\ Recorded(t) => Len(delays[t]) < MaxFailures
    /\ ~Recorded(t) => backoff[t] < 2 ^ MaxSessionFailures
    /\ pc' = [pc EXCEPT ![t] = "sleeping"]
    /\ delays' = Log(t, delays, backoff[t])
    /\ UNCHANGED <<backoff, cancelRequested, outcome>>

\* the exit of "async with reactive.lock()" (:32): the holder releases the
\* lock; a supervisor that leaves while it waits takes its waiter out of
\* the queue of asyncio.Lock
ReleaseLock(t) ==
    /\ lockHolder' = IF lockHolder = t THEN NoTask ELSE lockHolder
    /\ lockWaiters' = SelectSeq(lockWaiters, LAMBDA u : u # t)

\* the slip of a doubling without its ceiling
NextBackoffUncapped(b) == b * 2

\* the slip of a ceiling applied before the doubling
NextBackoffCapsFirst(b) == Min(b, BackoffCap) * 2

\* min(backoff * 2, 30) (:46)
NextBackoff(b) == Min(b * 2, BackoffCap)

(***************************************************************************)
(* Connecting (:16-19).                                                    *)
(***************************************************************************)
\* client.stream(...) raises (connect error, timeout, DNS, ...)
ConnectError(t) ==
    /\ Runs(t, "connecting")
    /\ Retry(t)
    /\ UNCHANGED <<lockHolder, lockWaiters, received, delivered, inflight,
                   resetFrom, cancelledAt, pending, cancelCalls, store, wiring, warned>>

\* the slip of a status check that comes after the reset of the backoff
BadStatusAfterReset(t) ==
    /\ Runs(t, "connecting")
    /\ Recorded(t) => Len(delays[t]) < MaxFailures
    /\ ~Recorded(t) => backoff[t] < 2 ^ MaxSessionFailures
    /\ pc' = [pc EXCEPT ![t] = "sleeping"]
    /\ backoff' = [backoff EXCEPT ![t] = InitialBackoff]
    /\ delays' = Log(t, delays, InitialBackoff)
    /\ UNCHANGED <<cancelRequested, outcome, lockHolder, lockWaiters, received,
                   delivered, inflight, resetFrom, cancelledAt, pending,
                   cancelCalls, store, wiring, warned>>

\* the response arrives with a non-2xx status: raise_for_status() raises (:18)
BadStatus(t) ==
    /\ Runs(t, "connecting")
    /\ Retry(t)
    /\ UNCHANGED <<lockHolder, lockWaiters, received, delivered, inflight,
                   resetFrom, cancelledAt, pending, cancelCalls, store, wiring, warned>>

\* the slip of a successful status check that keeps the escalated backoff
ConnectOkKeepsBackoff(t) ==
    /\ Runs(t, "connecting")
    /\ pc' = [pc EXCEPT ![t] = "reading"]
    /\ resetFrom' = IF Recorded(t) THEN [resetFrom EXCEPT ![t] = backoff[t]]
                                   ELSE resetFrom
    /\ received' = [received EXCEPT ![t] = <<>>]
    /\ delivered' = [delivered EXCEPT ![t] = <<>>]
    /\ delays' = [delays EXCEPT ![t] = <<>>]
    /\ warned' = [warned EXCEPT ![t] = <<>>]
    /\ UNCHANGED <<backoff, cancelRequested, outcome, lockHolder, lockWaiters,
                   inflight, cancelledAt, pending, cancelCalls, store, wiring>>

\* the response arrives with a 2xx status: backoff = 1 (:19), enter the
\* line loop (:20)
ConnectOk(t) ==
    /\ Runs(t, "connecting")
    /\ pc' = [pc EXCEPT ![t] = "reading"]
    /\ backoff' = [backoff EXCEPT ![t] = InitialBackoff]
    /\ resetFrom' = IF Recorded(t) THEN [resetFrom EXCEPT ![t] = backoff[t]]
                                   ELSE resetFrom
    /\ received' = [received EXCEPT ![t] = <<>>]
    /\ delivered' = [delivered EXCEPT ![t] = <<>>]
    /\ delays' = [delays EXCEPT ![t] = <<>>]
    /\ warned' = [warned EXCEPT ![t] = <<>>]
    /\ UNCHANGED <<cancelRequested, outcome, lockHolder, lockWaiters, inflight,
                   cancelledAt, pending, cancelCalls, store, wiring>>

(***************************************************************************)
(* The handlers of the session (server.py:66-76).                          *)
(***************************************************************************)
\* the slip of a list in the place of the deque: nothing is evicted
ListAppend(d, x) == Append(d, x)

\* deque(maxlen=60).append(x): a full deque drops its oldest entry
DequeAppend(d, x) ==
    IF Len(d) >= HistoryMax THEN Append(Tail(d), x) ELSE Append(d, x)

\* the body the three handlers share: history[key].append((datetime.now(),
\* data)); latest[key].set(data)
Store(kind, key, data) ==
    /\ clock' = clock + 1
    /\ history' = [history EXCEPT
            ![kind][key] = DequeAppend(@, <<clock + 1, data>>)]
    /\ latest' = [latest EXCEPT ![kind][key] = data]

\* on_pulse (server.py:66-68)
OnPulse(key, data) == Store("pulse", key, data)

\* on_sen66 (server.py:70-72)
OnSen66(key, data) == Store("sen66", key, data)

\* the slip of a copied handler that still writes the SEN66 state
OnSen66NcWritesSen66(key, data) == Store("sen66", key, data)

\* on_sen66_nc (server.py:74-76)
OnSen66Nc(key, data) == Store("sen66-nc", key, data)

\* the kind and the device of the endpoint a task was created for
KindOf(t) ==
    CHOOSE kind \in EndpointKinds :
        \E k \in DOMAIN history[kind] : Label(kind, k) = t

KeyOf(t) == CHOOSE k \in DOMAIN history[KindOf(t)] : Label(KindOf(t), k) = t

\* the on_data a supervisor was given: lambda d, k=k: on_pulse(k, d) and its
\* two siblings (server.py:82, :89, :97); the recording stand-in outside a
\* session
OnData(t, data) ==
    IF Recorded(t)
    THEN UNCHANGED store
    ELSE CASE KindOf(t) = "pulse" -> OnPulse(KeyOf(t), data)
           [] KindOf(t) = "sen66" -> OnSen66(KeyOf(t), data)
           [] KindOf(t) = "sen66-nc" -> OnSen66Nc(KeyOf(t), data)

(***************************************************************************)
(* The line loop (:20-34).                                                 *)
(***************************************************************************)
\* a line arrives
Arrives(t, line) ==
    /\ Runs(t, "reading")
    /\ Recorded(t) => Len(received[t]) < MaxLines
    /\ received' = Log(t, received, line)

\* the session has room for one more stored record
Room(t) == Recorded(t) \/ clock + Len(lockWaiters) < MaxRecords

\* asyncio.Lock.acquire() returns at once: the lock is free and nobody is
\* queued for it
LockFree == lockHolder = NoTask /\ lockWaiters = <<>>

\* the slip of a handler call that does not look at the lock
CallHandlerUnlocked(t, data) ==
    /\ lockHolder' = t
    /\ lockWaiters' = SelectSeq(lockWaiters, LAMBDA u : u # t)
    /\ delivered' = Log(t, delivered, data)
    /\ inflight' = [inflight EXCEPT ![t] = @ + 1]
    /\ pc' = [pc EXCEPT ![t] = "on_data"]
    /\ pending' = [pending EXCEPT ![t] = NoRecord]
    /\ OnData(t, data)

\* async with reactive.lock(): await on_data(data) (:32-33), up to the
\* first suspension: the supervisor owns the lock and the handler is called
CallHandler(t, data) ==
    /\ lockHolder = NoTask
    /\ lockHolder' = t
    /\ lockWaiters' = SelectSeq(lockWaiters, LAMBDA u : u # t)
    /\ delivered' = Log(t, delivered, data)
    /\ inflight' = [inflight EXCEPT ![t] = @ + 1]
    /\ pc' = [pc EXCEPT ![t] = "on_data"]
    /\ pending' = [pending EXCEPT ![t] = NoRecord]
    /\ OnData(t, data)

\* a line without the prefix: the if of :21 is false, next line
SkipLine(t) ==
    \E line \in LinesOf(t) :
        /\ Arrives(t, line)
        /\ ~StartsWith(line, DataPrefix)
        /\ UNCHANGED <<pc, backoff, cancelRequested, outcome, lockHolder,
                       lockWaiters, delivered, inflight, delays, resetFrom,
                       cancelledAt, pending, cancelCalls, store, wiring, warned>>

\* the slip of a decode without its own try: JSONDecodeError reaches
\* except Exception and the connection is dropped
MalformedLineRaises(t) ==
    \E line \in LinesOf(t) :
        /\ Arrives(t, line)
        /\ StartsWith(line, DataPrefix)
        /\ ~JsonLoads(DropPrefix(line, DataPrefix)).ok
        /\ Retry(t)
        /\ UNCHANGED <<lockHolder, lockWaiters, delivered, inflight, resetFrom,
                       cancelledAt, pending, cancelCalls, store, wiring, warned>>

\* the slip of a malformed line that is dropped without the warning
MalformedLineSilent(t) ==
    \E line \in LinesOf(t) :
        /\ Arrives(t, line)
        /\ StartsWith(line, DataPrefix)
        /\ ~JsonLoads(DropPrefix(line, DataPrefix)).ok
        /\ UNCHANGED <<pc, backoff, cancelRequested, outcome, lockHolder,
                       lockWaiters, delivered, inflight, delays, resetFrom,
                       cancelledAt, pending, cancelCalls, store, wiring, warned>>

\* a data line whose payload json.loads rejects: warning, continue (:23-31)
MalformedLine(t) ==
    \E line \in LinesOf(t) :
        /\ Arrives(t, line)
        /\ StartsWith(line, DataPrefix)
        /\ ~JsonLoads(DropPrefix(line, DataPrefix)).ok
        /\ warned' = Log(t, warned, DropPrefix(line, DataPrefix))
        /\ UNCHANGED <<pc, backoff, cancelRequested, outcome, lockHolder,
                       lockWaiters, delivered, inflight, delays, resetFrom,
                       cancelledAt, pending, cancelCalls, store, wiring>>

\* the slip of a handler that is started and not awaited: the loop goes on
\* to the next line while the call is still open
DataLineDetached(t) ==
    \E line \in LinesOf(t) :
        /\ Arrives(t, line)
        /\ StartsWith(line, DataPrefix)
        /\ JsonLoads(DropPrefix(line, DataPrefix)).ok
        /\ delivered' = [delivered EXCEPT
                ![t] = Append(@, JsonLoads(DropPrefix(line, DataPrefix)).val)]
        /\ inflight' = [inflight EXCEPT ![t] = @ + 1]
        /\ UNCHANGED <<pc, backoff, cancelRequested, outcome, lockHolder,
                       lockWaiters, delays, resetFrom, cancelledAt, pending,
                       cancelCalls, store, wiring, warned>>

\* a data line whose payload decodes, the lock is free: on_data under the
\* lock (:21-33)
DataLine(t) ==
    \E line \in LinesOf(t) :
        /\ Arrives(t, line)
        /\ StartsWith(line, DataPrefix)
        /\ JsonLoads(DropPrefix(line, DataPrefix)).ok
        /\ Room(t)
        /\ lockWaiters = <<>>
        /\ CallHandler(t, JsonLoads(DropPrefix(line, DataPrefix)).val)
        /\ UNCHANGED <<backoff, cancelRequested, outcome, delays, resetFrom,
                       cancelledAt, cancelCalls, wiring, warned>>

\* a data line whose payload decodes, the lock is held or promised to a
\* waiter: the supervisor queues in asyncio.Lock.acquire() (:32)
DataLineWaits(t) ==
    \E line \in LinesOf(t) :
        /\ Arrives(t, line)
        /\ StartsWith(line, DataPrefix)
        /\ JsonLoads(DropPrefix(line, DataPrefix)).ok
        /\ Room(t)
        /\ ~LockFree
        /\ pc' = [pc EXCEPT ![t] = "lock_wait"]
        /\ lockWaiters' = Append(lockWaiters, t)
        /\ pending' = [pending EXCEPT
                ![t] = JsonLoads(DropPrefix(line, DataPrefix)).val]
        /\ UNCHANGED <<backoff, cancelRequested, outcome, lockHolder, delivered,
                       inflight, delays, resetFrom, cancelledAt, cancelCalls,
                       store, wiring, warned>>

\* the lock is released and the supervisor is the oldest waiter: it is
\* woken, owns the lock and calls the handler (:32-33)
LockAcquired(t) ==
    /\ Runs(t, "lock_wait")
    /\ Head(lockWaiters) = t
    /\ CallHandler(t, pending[t])
    /\ UNCHANGED <<backoff, cancelRequested, outcome, received, delays,
                   resetFrom, cancelledAt, cancelCalls, wiring, warned>>

\* on_data returns: await reactive.flush() (:34)
HandlerReturn(t) ==
    /\ Runs(t, "on_data")
    /\ pc' = [pc EXCEPT ![t] = "flush"]
    /\ UNCHANGED <<backoff, cancelRequested, outcome, lockHolder, lockWaiters,
                   received, delivered, inflight, delays, resetFrom,
                   cancelledAt, pending, cancelCalls, store, wiring, warned>>

\* the slip of a lock taken with acquire() and no finally: an exception of
\* on_data leaves it held
HandlerRaiseKeepsLock(t) ==
    /\ Runs(t, "on_data")
    /\ inflight' = [inflight EXCEPT ![t] = @ - 1]
    /\ Retry(t)
    /\ UNCHANGED <<lockHolder, lockWaiters, received, delivered, resetFrom,
                   cancelledAt, pending, cancelCalls, store, wiring, warned>>

\* on_data raises: the lock and the connection are left, except Exception
HandlerRaise(t) ==
    /\ Runs(t, "on_data")
    /\ ReleaseLock(t)
    /\ inflight' = [inflight EXCEPT ![t] = @ - 1]
    /\ Retry(t)
    /\ UNCHANGED <<received, delivered, resetFrom,
                   cancelledAt, pending, cancelCalls, store, wiring, warned>>

\* the slip of a lock that is taken and never given back
FlushDoneKeepsLock(t) ==
    /\ Runs(t, "flush")
    /\ inflight' = [inflight EXCEPT ![t] = @ - 1]
    /\ pc' = [pc EXCEPT ![t] = "reading"]
    /\ UNCHANGED <<backoff, cancelRequested, outcome, lockHolder, lockWaiters,
                   received, delivered, delays, resetFrom,
                   cancelledAt, pending, cancelCalls, store, wiring, warned>>

\* the flush is done: leave the lock (:32), next line (:20)
FlushDone(t) ==
    /\ Runs(t, "flush")
    /\ ReleaseLock(t)
    /\ inflight' = [inflight EXCEPT ![t] = @ - 1]
    /\ pc' = [pc EXCEPT ![t] = "reading"]
    /\ UNCHANGED <<backoff, cancelRequested, outcome, received, delivered,
                   delays, resetFrom,
                   cancelledAt, pending, cancelCalls, store, wiring, warned>>

\* the slip of a loop that is left when the stream ends
StreamEndReturns(t) ==
    /\ Runs(t, "reading")
    /\ pc' = [pc EXCEPT ![t] = "done"]
    /\ outcome' = [outcome EXCEPT ![t] = "returned"]
    /\ UNCHANGED <<backoff, cancelRequested, lockHolder, lockWaiters, received,
                   delivered, inflight, delays, resetFrom,
                   cancelledAt, pending, cancelCalls, store, wiring, warned>>

\* aiter_lines() is exhausted: the async for and both async with end, the
\* try block ends without an exception and while True starts over (:14)
StreamEnd(t) ==
    /\ Runs(t, "reading")
    /\ pc' = [pc EXCEPT ![t] = "connecting"]
    /\ UNCHANGED <<backoff, cancelRequested, outcome, lockHolder, lockWaiters,
                   received, delivered, inflight, delays, resetFrom,
                   cancelledAt, pending, cancelCalls, store, wiring, warned>>

\* the slip of a transport error that puts the endpoint's snapshot back
\* to its default
StreamErrorClearsLatest(t) ==
    /\ Runs(t, "reading")
    /\ Retry(t)
    /\ latest' = IF Recorded(t) THEN latest
                 ELSE [latest EXCEPT ![KindOf(t)][KeyOf(t)] = DefaultOf(KindOf(t))]
    /\ UNCHANGED <<lockHolder, lockWaiters, received, delivered, inflight,
                   resetFrom, cancelledAt, pending, cancelCalls, history, clock,
                   wiring, warned>>

\* aiter_lines() raises (the transport fails in mid-stream)
StreamError(t) ==
    /\ Runs(t, "reading")
    /\ Retry(t)
    /\ UNCHANGED <<lockHolder, lockWaiters, received, delivered, inflight, resetFrom,
                   cancelledAt, pending, cancelCalls, store, wiring, warned>>

\* the slip of a retry that is not inside the loop: after the sleep the
\* coroutine returns
SleepDoneReturns(t) ==
    /\ Runs(t, "sleeping")
    /\ backoff' = [backoff EXCEPT ![t] = Min(@ * 2, BackoffCap)]
    /\ pc' = [pc EXCEPT ![t] = "done"]
    /\ outcome' = [outcome EXCEPT ![t] = "returned"]
    /\ UNCHANGED <<cancelRequested, lockHolder, lockWaiters, received,
                   delivered, inflight, delays, resetFrom,
                   cancelledAt, pending, cancelCalls, store, wiring, warned>>

\* the slip of a backoff that is one variable of the module, shared by
\* every supervisor
SleepDoneSharedBackoff(t) ==
    /\ Runs(t, "sleeping")
    /\ backoff' = [u \in Supervisors |-> NextBackoff(backoff[t])]
    /\ pc' = [pc EXCEPT ![t] = "connecting"]
    /\ UNCHANGED <<cancelRequested, outcome, lockHolder, lockWaiters,
                   received, delivered, inflight, delays, resetFrom,
                   cancelledAt, pending, cancelCalls, store, wiring, warned>>

\* the sleep is over: backoff = min(backoff * 2, 30) (:46), then the next
\* attempt (:14-17)
SleepDone(t) ==
    /\ Runs(t, "sleeping")
    /\ backoff' = [backoff EXCEPT ![t] = NextBackoff(@)]
    /\ pc' = [pc EXCEPT ![t] = "connecting"]
    /\ UNCHANGED <<cancelRequested, outcome, lockHolder, lockWaiters,
                   received, delivered, inflight, delays, resetFrom,
                   cancelledAt, pending, cancelCalls, store, wiring, warned>>

(***************************************************************************)
(* Cancellation.  Task.cancel() (server.py:103) makes the await the task   *)
(* is suspended in raise CancelledError on the task's next step.           *)
(***************************************************************************)
Cancel(t) ==
    /\ pc[t] \in SuspensionPoints
    /\ ~cancelRequested[t]
    /\ cancelRequested' = [cancelRequested EXCEPT ![t] = TRUE]
    /\ cancelledAt' = IF Recorded(t) THEN [cancelledAt EXCEPT ![t] = pc[t]]
                                     ELSE cancelledAt
    /\ cancelCalls' = [cancelCalls EXCEPT ![t] = @ + 1]
    /\ UNCHANGED <<pc, backoff, outcome, lockHolder, lockWaiters, received,
                   delivered, inflight, delays, resetFrom, pending, store,
                   wiring, warned>>

\* the coroutine ends
Ends(t, how) ==
    /\ pc' = [pc EXCEPT ![t] = "done"]
    /\ outcome' = [outcome EXCEPT ![t] = how]

\* the slip of a CancelledError that except Exception catches: the
\* cancelled supervisor logs the warning and sleeps
CancelledInTryRetries(t) ==
    /\ MustCancel(t)
    /\ pc[t] \in InTry
    /\ Retry(t)
    /\ lockHolder' = IF lockHolder = t THEN NoTask ELSE lockHolder
    /\ inflight' = [inflight EXCEPT ![t] = 0]
    /\ UNCHANGED <<lockWaiters, received, delivered, resetFrom,
                   cancelledAt, pending, cancelCalls, store, wiring, warned>>

\* the slip of a cancellation that is taken at the wait for a line only
CancelledInTryAtLineOnly(t) ==
    /\ MustCancel(t)
    /\ pc[t] = "reading"
    /\ Ends(t, "returned")
    /\ ReleaseLock(t)
    /\ inflight' = [inflight EXCEPT ![t] = 0]
    /\ pending' = [pending EXCEPT ![t] = NoRecord]
    /\ UNCHANGED <<backoff, cancelRequested, received, delivered, delays,
                   resetFrom, cancelledAt, cancelCalls, store, wiring, warned>>

\* CancelledError inside the try block: the context managers are left and
\* except asyncio.CancelledError returns (:35-36)
CancelledInTry(t) ==
    /\ MustCancel(t)
    /\ pc[t] \in InTry
    /\ Ends(t, "returned")
    /\ ReleaseLock(t)
    /\ inflight' = [inflight EXCEPT ![t] = 0]
    /\ pending' = [pending EXCEPT ![t] = NoRecord]
    /\ UNCHANGED <<backoff, cancelRequested, received, delivered, delays,
                   resetFrom, cancelledAt, cancelCalls, store, wiring, warned>>

\* CancelledError inside asyncio.sleep (:45): the await is in the except
\* clause, outside the try block, so no handler catches it
CancelledInSleep(t) ==
    /\ MustCancel(t)
    /\ pc[t] = "sleeping"
    /\ Ends(t, "raised")
    /\ UNCHANGED <<backoff, cancelRequested, lockHolder, lockWaiters, received,
                   delivered, inflight, delays, resetFrom,
                   cancelledAt, pending, cancelCalls, store, wiring, warned>>

(***************************************************************************)
(* One supervisor run by itself.                                           *)
(***************************************************************************)
Step(t) ==
    \/ ConnectError(t)
    \/ BadStatus(t)
    \/ ConnectOk(t)
    \/ SkipLine(t)
    \/ MalformedLine(t)
    \/ DataLine(t)
    \/ HandlerReturn(t)
    \/ HandlerRaise(t)
    \/ FlushDone(t)
    \/ StreamEnd(t)
    \/ StreamError(t)
    \/ SleepDone(t)
    \/ Cancel(t)
    \/ CancelledInTry(t)
    \/ CancelledInSleep(t)

Next == \E t \in {SoloLabel} : Step(t)

Spec == Init /\ [][Next]_vars

\* the event loop's timer fires: a sleeping supervisor is resumed
FairSpec == Spec /\ WF_vars(SleepDone(SoloLabel))

(***************************************************************************)
(* One session: server() builds the state, creates one task per endpoint   *)
(* and registers the cancellation of all of them for the session's end.    *)
(***************************************************************************)
\* DEVICES and SEN66_DEVICES of the configurations the model runs: one
\* pi-pulse device and one SEN66 device; the SEN66 device alone
Configs == { << <<"10">>, <<"11">> >>, << <<>>, <<"11">> >> }

InitSession ==
    \E cfg \in Configs :
        /\ tasks = Tasks(cfg)
        /\ InitOf(Range(Tasks(cfg)))
        /\ ServerInit(cfg)
        /\ framed = NotFramed

\* the slip of a callback that cancels the first task it finds and stops
EndSessionFirstOnly ==
    /\ ~sessionEnded
    /\ sessionEnded' = TRUE
    /\ cancelRequested' = [t \in Supervisors |->
            cancelRequested[t] \/ (t = tasks[1] /\ pc[t] \in SuspensionPoints)]
    /\ cancelCalls' = [t \in Supervisors |->
            IF t = tasks[1] THEN cancelCalls[t] + 1 ELSE cancelCalls[t]]
    /\ UNCHANGED <<pc, backoff, outcome, lockHolder, lockWaiters, received,
                   delivered, inflight, delays, resetFrom, cancelledAt, pending,
                   store, tasks, framed, charts, warned>>

\* the session ends: lambda: [t.cancel() for t in tasks] (server.py:103),
\* one callback that no task interleaves with
EndSession ==
    /\ ~sessionEnded
    /\ sessionEnded' = TRUE
    /\ cancelRequested' = [t \in Supervisors |->
            cancelRequested[t] \/ (t \in Range(tasks) /\ pc[t] \in SuspensionPoints)]
    /\ cancelCalls' = [t \in Supervisors |->
            IF t \in Range(tasks) THEN cancelCalls[t] + 1 ELSE cancelCalls[t]]
    /\ UNCHANGED <<pc, backoff, outcome, lockHolder, lockWaiters, received,
                   delivered, inflight, delays, resetFrom, cancelledAt, pending,
                   store, tasks, framed, charts, warned>>

\* a step of the supervisor of one endpoint; on_pulse, on_sen66 and
\* on_sen66_nc have no statement that raises
SessionStep(t) ==
    \/ ConnectError(t)
    \/ BadStatus(t)
    \/ ConnectOk(t)
    \/ SkipLine(t)
    \/ MalformedLine(t)
    \/ DataLine(t)
    \/ DataLineWaits(t)
    \/ LockAcquired(t)
    \/ HandlerReturn(t)
    \/ FlushDone(t)
    \/ StreamEnd(t)
    \/ StreamError(t)
    \/ SleepDone(t)
    \/ CancelledInTry(t)
    \/ CancelledInSleep(t)

\* the labels of the tasks of all configurations
SessionLabels == UNION {Range(Tasks(cfg)) : cfg \in Configs}

NextSession ==
    \/ EndSession
    \/ \E t \in SessionLabels : SessionStep(t)

SpecSession == InitSession /\ [][NextSession]_vars

\* the event loop runs the step of a task that Task.cancel() made ready
Cancelled ==
    \E t \in Supervisors : CancelledInTry(t) \/ CancelledInSleep(t)

FairSessionSpec == SpecSession /\ WF_vars(Cancelled)

\* the session with its event loop at work: a handler that was called
\* returns, a flush that was started ends, the waiter the lock woke runs,
\* and a cancelled supervisor is resumed
FairLockSpec ==
    /\ SpecSession
    /\ WF_vars(Cancelled)
    /\ \A t \in SessionLabels :
          /\ WF_vars(HandlerReturn(t))
          /\ WF_vars(FlushDone(t))
          /\ WF_vars(LockAcquired(t))

(***************************************************************************)
(* The handlers by themselves: server() has built the state and handed     *)
(* one callback per endpoint to stream_consumer; the callbacks are called  *)
(* directly, on histories of every fill that matters.                      *)
(***************************************************************************)
\* two pi-pulse devices, one of them with a SEN66
HandlerConfigs == { << <<"10", "11">>, <<"11">> >> }

\* the entries a history holds at the start: none, one short of the
\* maximum, the maximum
PrefillSizes == {0, HistoryMax - 1, HistoryMax}

\* the history after the records 1 .. n, stored at the times 1-n .. 0
Prefilled(n) == [i \in 1..n |-> <<i - n, JsonNumber(i)>>]

\* the endpoints of a configuration, as pairs of a kind and a device
Endpoints(cfg) ==
    {e \in EndpointKinds \X (Range(cfg[1]) \cup Range(cfg[2])) :
        e[2] \in Range(KeysOf(e[1], cfg))}

InitHandlers ==
    \E cfg \in HandlerConfigs :
        \E fill \in [Endpoints(cfg) -> PrefillSizes] :
            /\ tasks = Tasks(cfg)
            /\ InitOf({})
            /\ history = [kind \in EndpointKinds |->
                    [k \in Range(KeysOf(kind, cfg)) |->
                        Prefilled(fill[<<kind, k>>])]]
            /\ latest = [kind \in EndpointKinds |->
                    [k \in Range(KeysOf(kind, cfg)) |->
                        IF fill[<<kind, k>>] = 0
                        THEN DefaultOf(kind)
                        ELSE JsonNumber(fill[<<kind, k>>])]]
            /\ clock = 0
            /\ sessionEnded = FALSE
            /\ ChartsInit
            /\ framed = NotFramed

\* the records the lines of the model carry
SampleRecords ==
    {JsonLoads(DropPrefix(line, DataPrefix)).val :
        line \in {l \in SampleLines :
            StartsWith(l, DataPrefix) /\ JsonLoads(DropPrefix(l, DataPrefix)).ok}}

\* await on_data(data) on the callback of one endpoint
Callback(t, data) ==
    /\ clock < MaxRecords
    /\ OnData(t, data)
    /\ UNCHANGED <<pc, backoff, cancelRequested, outcome, lockHolder,
                   lockWaiters, received, delivered, inflight, delays,
                   resetFrom, cancelledAt, pending, cancelCalls, wiring, warned>>

NextHandlers ==
    \E t \in Range(tasks) : \E data \in SampleRecords : Callback(t, data)

SpecHandlers == InitHandlers /\ [][NextHandlers]_vars

(***************************************************************************)
(* The framing helper by itself (src/app/streams/parser.py).               *)
(***************************************************************************)
\* the result of extract_sse_payload: None, or the payload
NoPayload == [found |-> FALSE, text |-> <<>>]

Payload(text) == [found |-> TRUE, text |-> text]

\* the slip of the framing of the SSE standard: the blank after the colon
\* is optional and dropped when it is there
ExtractSsePayloadLenient(line) ==
    IF ~StartsWith(line, SubSeq(DataPrefix, 1, Len(DataPrefix) - 1))
    THEN NoPayload
    ELSE IF StartsWith(line, DataPrefix)
         THEN Payload(DropPrefix(line, DataPrefix))
         ELSE Payload(DropPrefix(line, SubSeq(DataPrefix, 1, Len(DataPrefix) - 1)))

\* extract_sse_payload (parser.py:6-9)
ExtractSsePayload(line) ==
    IF ~StartsWith(line, DataPrefix)
    THEN NoPayload
    ELSE Payload(DropPrefix(line, DataPrefix))

\* the beginnings of a line: every length up to that of the prefix, each
\* character that of the prefix or another one
LineHeads ==
    {[i \in 1..Len(m) |-> IF m[i] THEN DataPrefix[i] ELSE "x"] :
        m \in UNION {[1..n -> BOOLEAN] : n \in 0..Len(DataPrefix)}}

\* what follows the beginning: nothing, a blank, a letter, a payload with
\* blanks in front, inside and behind
LineTails == {<<>>, <<" ">>, <<"X">>, <<" ", "a", " ", " ", "b", " ">>}

ParserLines == SampleLines \cup {h \o tl : h \in LineHeads, tl \in LineTails}

InitParser ==
    /\ InitOf({})
    /\ tasks = <<>>
    /\ ServerInit(<< <<>>, <<>> >>)
    /\ framed \in {[line |-> l, called |-> FALSE, found |-> FALSE, text |-> <<>>] :
                    l \in ParserLines}

\* payload = extract_sse_payload(line)
Extract ==
    /\ ~framed.called
    /\ framed' = [line |-> framed.line, called |-> TRUE,
                  found |-> ExtractSsePayload(framed.line).found,
                  text |-> ExtractSsePayload(framed.line).text]
    /\ UNCHANGED <<pc, backoff, cancelRequested, outcome, lockHolder,
                   lockWaiters, received, delivered, inflight, delays,
                   resetFrom, cancelledAt, pending, cancelCalls, store, tasks,
                   sessionEnded, charts, warned>>

NextParser == Extract

SpecParser == InitParser /\ [][NextParser]_vars

(***************************************************************************)
(* What the lines of the model decode to, written down by hand.            *)
(***************************************************************************)
\* {"cpu": n}
CpuRecord(n) == JsonObject({<< <<"c", "p", "u">>, JsonNumber(n) >>})

\* the lines that carry a payload that is valid JSON
ValidDataLines == {LineCpu1, LineCpu2, LineSeven}

\* the lines that carry a payload that is not valid JSON
MalformedDataLines == {LineCut}

RecordOf(line) ==
    CASE line = LineCpu1 -> CpuRecord(1)
      [] line = LineCpu2 -> CpuRecord(2)
      [] line = LineSeven -> JsonNumber(7)

RECURSIVE ExpectedCalls(_)
ExpectedCalls(lines) ==
    IF lines = <<>>
    THEN <<>>
    ELSE IF Head(lines) \in ValidDataLines
         THEN <<RecordOf(Head(lines))>> \o ExpectedCalls(Tail(lines))
         ELSE ExpectedCalls(Tail(lines))

(***************************************************************************)
(* The supervisor loop.                                                    *)
(***************************************************************************)
\* C1: a supervisor that has ended was cancelled: no connect error, bad
\* status, stream error, end of stream, malformed payload or handler
\* exception ends the loop.
C1_OnlyCancellationEnds ==
    \A t \in Supervisors : pc[t] = "done" => cancelRequested[t]

\* a supervisor that went through a failed attempt and a connection with
\* lines before it was cancelled
C1_Witness ==
    \E t \in Supervisors :
        /\ pc[t] = "done"
        /\ cancelRequested[t]
        /\ received[t] # <<>>
        /\ delays[t] # <<>>

\* C2: under fairness (a sleep that is not cancelled ends), a supervisor
\* whose attempt failed, and which therefore sleeps, starts a new
\* connection attempt unless it is cancelled first.
C2_FailureLeadsToRetry ==
    \A t \in {SoloLabel} :
        (pc[t] = "sleeping") ~> (pc[t] = "connecting" \/ cancelRequested[t])

\* a new attempt is under way after two failed ones
C2_Witness ==
    \E t \in Supervisors :
        /\ pc[t] = "connecting"
        /\ ~cancelRequested[t]
        /\ Len(delays[t]) = 2

\* C3: the k-th delay of a run of failed attempts with no successful
\* connection in between is min(2^(k-1), 30): 1, 2, 4, 8, 16, 30, 30, ...
C3_BackoffSequence ==
    \A t \in Supervisors :
        \A k \in 1..Len(delays[t]) :
            delays[t][k] = Min(2 ^ (k - 1), 30)

\* seven failures in a row
C3_Witness ==
    \E t \in Supervisors :
        /\ pc[t] = "sleeping"
        /\ delays[t] = <<1, 2, 4, 8, 16, 30, 30>>

\* C4: inside an open connection the backoff is 1, and the first delay
\* slept after a successful status check is 1 whatever the backoff was
\* before it.
C4_SuccessResetsBackoff ==
    \A t \in Supervisors :
        /\ pc[t] \in Connected => backoff[t] = 1
        /\ (resetFrom[t] # 0 /\ delays[t] # <<>>) => delays[t][1] = 1

\* the backoff had reached 30, a connection succeeded, and the failure
\* after it sleeps 1
C4_Witness ==
    \E t \in Supervisors :
        /\ resetFrom[t] = 30
        /\ pc[t] = "sleeping"
        /\ delays[t] = <<1>>

\* C5: a clean end of stream is followed by a sleep of the current backoff
\* (and the doubling of the backoff), like an error.
C5_CleanEndBacksOff ==
    [][\A t \in Supervisors :
         StreamEnd(t) =>
             /\ pc'[t] = "sleeping"
             /\ delays'[t] = Append(delays[t], backoff[t])]_vars

C7_CancelledReturns ==
    \A t \in Supervisors : pc[t] = "done" => outcome[t] = "returned"

(***************************************************************************)
(* The line loop.                                                          *)
(***************************************************************************)
\* C8: the values on_data was called with are, in order and once each, the
\* decoded payloads of the lines that start with "data: " and carry valid
\* JSON.
C8_DeliversValidDataLines ==
    \A t \in Supervisors :
        pc[t] # "lock_wait" => delivered[t] = ExpectedCalls(received[t])

\* event: ignored, data: {"cpu": 1}, data:{"cpu": 2} gave the one call
\* on_data({"cpu": 1})
C8_Witness ==
    \E t \in Supervisors :
        /\ received[t] = <<LineEvent, LineCpu1, LineNoSpace>>
        /\ delivered[t] = <<CpuRecord(1)>>
        /\ pc[t] = "reading"

\* C9: the step that reads a malformed data line leaves the supervisor
\* reading the same connection, with its backoff, its delays and its calls
\* unchanged, and a valid data line read after it is delivered.
C9_MalformedIsSkipped ==
    [][\A t \in Supervisors :
         /\ \A line \in MalformedDataLines :
                received'[t] = Append(received[t], line) =>
                    /\ pc'[t] = "reading"
                    /\ backoff'[t] = backoff[t]
                    /\ delays'[t] = delays[t]
                    /\ delivered'[t] = delivered[t]
         /\ \A line \in ValidDataLines :
                ( /\ received'[t] = Append(received[t], line)
                  /\ \E i \in 1..Len(received[t]) :
                         received[t][i] \in MalformedDataLines )
                    => delivered'[t] = Append(delivered[t], RecordOf(line))]_vars

\* a malformed line between two records
C9_Witness ==
    \E t \in Supervisors :
        /\ received[t] = <<LineCpu2, LineCut, LineCpu1>>
        /\ delivered[t] = <<CpuRecord(2), CpuRecord(1)>>
        /\ backoff[t] = 1

\* C10: at most one on_data call of an endpoint is open, and a line is read
\* only when none is.
C10_OneRecordInFlight ==
    [][\A t \in Supervisors :
         /\ inflight'[t] <= 1
         /\ Len(received'[t]) > Len(received[t]) => inflight[t] = 0]_vars

\* the second record of a connection is in its flush
C10_Witness ==
    \E t \in Supervisors :
        /\ pc[t] = "flush"
        /\ inflight[t] = 1
        /\ Len(delivered[t]) = 2

(***************************************************************************)
(* The session: the lock, the handlers, the wiring and the session's end.  *)
(***************************************************************************)
\* the critical section: the on_data call and the flush after it
CriticalSection == {"on_data", "flush"}

\* C11: in a session at most one supervisor is inside its critical section
\* (the on_data call and the flush after it), that supervisor holds the lock,
\* and while a supervisor is inside it no step changes a history, a snapshot
\* or the clock of the handlers: no other handler runs there.
C11_MutualExclusion ==
    [][/\ \A t, u \in Supervisors :
            pc[t] \in CriticalSection /\ pc[u] \in CriticalSection => t = u
       /\ \A t \in Supervisors : pc[t] \in CriticalSection => lockHolder = t
       /\ (\E t \in Supervisors : pc[t] \in CriticalSection)
            => history' = history /\ latest' = latest /\ clock' = clock]_vars

C11_Witness ==
    \E t, u \in Supervisors :
        /\ pc[t] = "flush"
        /\ lockHolder = t
        /\ pc[u] = "lock_wait"
        /\ ~sessionEnded

\* C12: a history or a snapshot changes only in the step in which a
\* supervisor, reading or queued for the lock before, takes the lock and
\* calls its handler; no other supervisor moves in that step, and every other
\* step leaves all histories and snapshots as they are.
C12_OnlyHandlerWrites ==
    [][(history' # history \/ latest' # latest) =>
        \E t \in Supervisors :
            /\ pc[t] \in {"reading", "lock_wait"}
            /\ pc'[t] = "on_data"
            /\ lockHolder = NoTask
            /\ lockHolder' = t
            /\ \A u \in Supervisors \ {t} : pc'[u] = pc[u]]_vars

C12_Witness ==
    /\ "pulse-10" \in Supervisors
    /\ pc["pulse-10"] = "sleeping"
    /\ lockHolder = NoTask
    /\ latest["pulse"]["10"] = CpuRecord(1)
    /\ Len(history["pulse"]["10"]) = 1

\* C13: no history holds more than 60 entries, and the step that appends to
\* a history of 60 drops its first entry, keeps the 59 others in their order
\* and puts the new record, which is also the new snapshot, last.
C13_HistoryBounded ==
    [][\A kind \in EndpointKinds : \A k \in DOMAIN history[kind] :
        LET old == history[kind][k]
            new == history'[kind][k]
        IN  /\ Len(old) <= 60
            /\ Len(new) <= 60
            /\ (new # old /\ Len(old) = 60) =>
                  /\ Len(new) = 60
                  /\ \A i \in 1..59 : new[i] = old[i + 1]
                  /\ new[60][2] = latest'[kind][k]
                  /\ new[60][1] > old[60][1]]_vars

C13_Witness ==
    \E kind \in EndpointKinds : \E k \in DOMAIN history[kind] :
        /\ Len(history[kind][k]) = 60
        /\ history[kind][k][1] = <<-58, JsonNumber(2)>>
        /\ history[kind][k][60] = <<1, CpuRecord(1)>>

\* the endpoint of each label, written down by hand
EndpointOf(t) ==
    CASE t = "pulse-10" -> <<"pulse", "10">>
      [] t = "pulse-11" -> <<"pulse", "11">>
      [] t = "sen66-11" -> <<"sen66", "11">>
      [] t = "sen66-nc-11" -> <<"sen66-nc", "11">>

\* C14: the callback of the endpoint of kind K of device k, called with a
\* record, makes the record the newest entry of history[K][k] and the value
\* of latest[K][k], and leaves the history and the snapshot of every other
\* endpoint as they are; the snapshot of an endpoint that has stored a record
\* is the record of its newest entry.
C14_RoutedToItsEndpoint ==
    [][\A t \in Range(tasks) : \A data \in SampleRecords :
        Callback(t, data) =>
            LET K == EndpointOf(t)[1]
                k == EndpointOf(t)[2]
            IN  /\ history'[K][k] # <<>>
                /\ history'[K][k][Len(history'[K][k])][2] = data
                /\ Len(history'[K][k]) = Min(Len(history[K][k]) + 1, 60)
                /\ latest'[K][k] = data
                /\ \A kind \in EndpointKinds : \A d \in DOMAIN history[kind] :
                      <<kind, d>> # <<K, k>> =>
                          /\ history'[kind][d] = history[kind][d]
                          /\ latest'[kind][d] = latest[kind][d]]_vars

C14_Witness ==
    /\ history["sen66-nc"]["11"] = <<<<2, JsonNumber(7)>>>>
    /\ latest["sen66-nc"]["11"] = JsonNumber(7)
    /\ history["sen66"]["11"] = <<<<1, CpuRecord(1)>>>>
    /\ latest["sen66"]["11"] = CpuRecord(1)
    /\ history["pulse"]["10"] = <<>>
    /\ history["pulse"]["11"] = <<>>

\* C15: the step of a failed attempt (a status that is not 2xx among them)
\* leaves the lines read, the records delivered and the backoff as they are
\* and sleeps the backoff; the step that ends the sleep doubles the backoff,
\* 30 at most, and starts the next attempt.
C15_BadStatusIsFailure ==
    [][\A t \in Supervisors :
        /\ (pc[t] = "connecting" /\ pc'[t] = "sleeping") =>
              /\ backoff'[t] = backoff[t]
              /\ received'[t] = received[t]
              /\ delivered'[t] = delivered[t]
              /\ delays'[t] = Append(delays[t], backoff[t])
        /\ (pc[t] = "sleeping" /\ pc'[t] # "sleeping" /\ ~cancelRequested[t]) =>
              /\ pc'[t] = "connecting"
              /\ backoff'[t] = Min(2 * backoff[t], 30)]_vars

C15_Witness ==
    \E t \in Supervisors :
        /\ pc[t] = "sleeping"
        /\ resetFrom[t] = 0
        /\ backoff[t] = 4
        /\ delays[t] = <<1, 2, 4>>
        /\ received[t] = <<>>
        /\ delivered[t] = <<>>

\* C16: extract_sse_payload finds a payload exactly in the lines that begin
\* with the six characters d a t a : blank, and the payload is the line
\* without these six characters.
C16_ExactPrefix ==
    framed.called =>
        LET L == framed.line
            begins == /\ Len(L) >= 6
                      /\ L[1] = "d" /\ L[2] = "a" /\ L[3] = "t"
                      /\ L[4] = "a" /\ L[5] = ":" /\ L[6] = " "
        IN  /\ framed.found <=> begins
            /\ framed.found =>
                  /\ Len(framed.text) = Len(L) - 6
                  /\ \A i \in 1..Len(framed.text) : framed.text[i] = L[i + 6]
            /\ ~framed.found => framed.text = <<>>

C16_Witness ==
    /\ framed.called
    /\ framed.found
    /\ framed.line = <<"d", "a", "t", "a", ":", " ", " ", "a", " ", " ", "b", " ">>
    /\ framed.text = <<" ", "a", " ", " ", "b", " ">>

\* C17: from the end of the session on, Task.cancel() has been called
\* exactly once on every task of the session and no history and no snapshot
\* changes; and the end of the session leads to the end of every task.
C17_SessionEndCancelsAll ==
    /\ [](sessionEnded =>
            \A i \in 1..Len(tasks) :
                /\ cancelCalls[tasks[i]] = 1
                /\ cancelRequested[tasks[i]] \/ pc[tasks[i]] = "done")
    /\ [][sessionEnded => history' = history /\ latest' = latest]_vars
    /\ (sessionEnded ~> \A t \in Supervisors : pc[t] = "done")

C17_Witness ==
    /\ sessionEnded
    /\ Len(tasks) = 3
    /\ \A t \in Supervisors : pc[t] = "done"
    /\ \E t \in Supervisors : outcome[t] = "raised"
    /\ clock >= 1

\* C18: the session has |DEVICES| + 2 * |SEN66_DEVICES| tasks, every
\* endpoint has exactly one of them, the supervisors that run are these
\* tasks, and this is so in every state of the session, whatever has failed.
C18_OneTaskPerEndpoint ==
    /\ Len(tasks) = Cardinality(DOMAIN history["pulse"])
                        + 2 * Cardinality(DOMAIN history["sen66"])
    /\ DOMAIN history["sen66-nc"] = DOMAIN history["sen66"]
    /\ \A kind \in EndpointKinds : \A k \in DOMAIN history[kind] :
          Cardinality({i \in 1..Len(tasks) : tasks[i] = Label(kind, k)}) = 1
    /\ Supervisors = Range(tasks)

C18_Witness ==
    \E t \in Supervisors :
        /\ Len(tasks) = 3
        /\ pc[t] = "connecting"
        /\ backoff[t] = 4
        /\ ~sessionEnded

\* C19: a step that changes the backoff or the suspension point of one
\* supervisor changes neither of any other supervisor.
C19_BackoffIsPrivate ==
    [][\A t, u \in Supervisors :
        (t # u /\ (backoff'[t] # backoff[t] \/ pc'[t] # pc[t])) =>
            backoff'[u] = backoff[u] /\ pc'[u] = pc[u]]_vars

C19_Witness ==
    /\ pc["sen66-11"] = "sleeping"
    /\ backoff["sen66-11"] = 2
    /\ pc["sen66-nc-11"] = "reading"
    /\ backoff["sen66-nc-11"] = 1

\* C20 as claimed: a supervisor is suspended only in the wait for a line or
\* in the backoff delay.
C20_OnlyTwoSuspensionPoints ==
    \A t \in Supervisors : pc[t] \in {"reading", "sleeping", "done"}

\* C20 as amended: a supervisor is suspended while it opens the connection,
\* waits for a line, is queued for the lock, is inside on_data or the flush,
\* or sleeps the backoff; a supervisor queued for the lock does not hold it;
\* and at each of these points the next step of a cancelled supervisor ends
\* it.
C20_SuspensionPoints ==
    \A t \in Supervisors :
        /\ pc[t] \in {"connecting", "reading", "lock_wait", "on_data", "flush",
                      "sleeping", "done"}
        /\ pc[t] = "lock_wait" => lockHolder # t /\ t \in Range(lockWaiters)
        /\ (cancelRequested[t] /\ pc[t] # "done") =>
              ENABLED (/\ CancelledInTry(t) \/ CancelledInSleep(t)
                       /\ pc'[t] = "done")

C20_Witness ==
    \E t, u \in Supervisors :
        /\ pc[t] = "lock_wait"
        /\ cancelRequested[t]
        /\ lockHolder = u
        /\ pc[u] = "flush"

(***************************************************************************)
(* The backoff, the records and the lock once more.                        *)
(***************************************************************************)
\* C21: the backoff of a supervisor is one of 1, 2, 4, 8, 16 and 30 in every
\* state.
C21_BackoffValues ==
    \A t \in Supervisors : backoff[t] \in {1, 2, 4, 8, 16, 30}

C21_Witness ==
    \E t \in Supervisors :
        /\ resetFrom[t] = 30
        /\ backoff[t] = 16
        /\ delays[t] = <<1, 2, 4, 8>>

C26_LockOnlyInCriticalSection ==
    [][\A t \in Supervisors :
        /\ pc[t] \notin {"on_data", "flush"} => lockHolder # t
        /\ pc'[t] \notin {"on_data", "flush"} => lockHolder' # t
        /\ (pc[t] \in {"on_data", "flush"} /\ pc'[t] \notin {"on_data", "flush"})
              => lockHolder = t /\ lockHolder' = NoTask]_vars

C26_Witness ==
    \E t \in Supervisors :
        /\ cancelledAt[t] = "flush"
        /\ pc[t] = "done"
        /\ lockHolder = NoTask
        /\ Len(delivered[t]) = 1

(***************************************************************************)
(* The parser helpers against the inline framing of the consumer.          *)
(***************************************************************************)
\* parse_payload (parser.py:12-13): json.loads of the payload
ParsePayload(payload) == JsonLoads(payload)

\* parse_sse_json (parser.py:16-20): None for a line that is not framed,
\* else the decoded payload, or the JSONDecodeError of json.loads
ParseSseJson(line) ==
    LET payload == ExtractSsePayload(line)
    IN  IF ~payload.found
        THEN [kind |-> "none", val |-> JsonNull]
        ELSE LET decoded == ParsePayload(payload.text)
             IN  IF decoded.ok
                 THEN [kind |-> "value", val |-> decoded.val]
                 ELSE [kind |-> "raise", val |-> JsonNull]

ChartConfig == << <<"10">>, <<"11">> >>

\* DEVICES and SEN66_DEVICES (config.py:47-48)
PulseDevices == Range(KeysOf("pulse", ChartConfig))

Sen66Devices == Range(KeysOf("sen66", ChartConfig))

\* ALL_DEVICES (config.py:33-36)
AllDevices == PulseDevices \cup Sen66Devices

\* PULSE_CHARTS (config.py:53-59)
PulseCharts == {"cpu", "cpu_freq", "mem", "temp", "net"}

\* SEN66_CHARTS (config.py:61-67)
Sen66Charts == {"temp_hum", "co2", "voc_nox", "pm_mass", "pm_nc"}

\* the choices of chart_style (layout.py:224-230)
ChartStyles == {"plotly", "plotly_dark"}

\* every input with every value it can be set to
InputChoices ==
    ({"device"} \X AllDevices) \cup ({"pulse_chart"} \X PulseCharts)
        \cup ({"sen66_chart"} \X Sen66Charts) \cup ({"chart_style"} \X ChartStyles)

\* _NO_DATA_ANNOTATION (sen66.py:12-20), by its text
NoDataAnnotation == "No SEN66 data is available for this device."

\* the columns a pulse chart plots: _PULSE_FIELDS (pulse.py:18-23) and the
\* two of the net chart (pulse.py:63-64)
PulseFields(chart) ==
    CASE chart = "cpu" -> << <<"c", "p", "u">> >>
      [] chart = "mem" -> << <<"m", "e", "m">> >>
      [] chart = "temp" -> << <<"t", "e", "m", "p">> >>
      [] chart = "cpu_freq" -> << <<"c", "p", "u", "_", "f", "r", "e", "q", "_", "a", "v", "g", "_", "m", "h", "z">> >>
      [] chart = "net" -> << <<"n", "e", "t", "_", "r", "x", "_", "b", "p", "s", "_", "t", "o", "t", "a", "l">>,
                           <<"n", "e", "t", "_", "t", "x", "_", "b", "p", "s", "_", "t", "o", "t", "a", "l">> >>

\* the columns a SEN66 chart plots, in the order of its add_scatter calls
\* (sen66.py:143-230)
Sen66Fields(chart) ==
    CASE chart = "temp_hum" -> << <<"t", "e", "m", "p", "e", "r", "a", "t", "u", "r", "e", "_", "c">>,
                                <<"h", "u", "m", "i", "d", "i", "t", "y", "_", "r", "h">> >>
      [] chart = "co2" -> << <<"c", "o", "2", "_", "p", "p", "m">> >>
      [] chart = "voc_nox" -> << <<"v", "o", "c", "_", "i", "n", "d", "e", "x">>,
                               <<"n", "o", "x", "_", "i", "n", "d", "e", "x">> >>
      [] chart = "pm_mass" -> << <<"p", "m", "1", "_", "0", "_", "u", "g", "m", "3">>,
                               <<"p", "m", "2", "_", "5", "_", "u", "g", "m", "3">>,
                               <<"p", "m", "4", "_", "0", "_", "u", "g", "m", "3">>,
                               <<"p", "m", "1", "0", "_", "0", "_", "u", "g", "m", "3">> >>
      [] chart = "pm_nc" -> << <<"n", "c", "_", "p", "m", "0", "_", "5", "_", "p", "c", "m", "3">>,
                             <<"n", "c", "_", "p", "m", "1", "_", "0", "_", "p", "c", "m", "3">>,
                             <<"n", "c", "_", "p", "m", "2", "_", "5", "_", "p", "c", "m", "3">>,
                             <<"n", "c", "_", "p", "m", "4", "_", "0", "_", "p", "c", "m", "3">>,
                             <<"n", "c", "_", "p", "m", "1", "0", "_", "0", "_", "p", "c", "m", "3">> >>

\* isinstance(d, dict)
IsDict(d) == d.type = "object"

\* key in d
HasKey(d, key) == IsDict(d) /\ \E m \in d.members : m[1] = key

\* d[key]
Item(d, key) == (CHOOSE m \in d.members : m[1] = key)[2]

\* d.get(key, default)
DictGet(d, key, default) == IF HasKey(d, key) THEN Item(d, key) ELSE default

\* times = [t for t, _ in history]
Times(h) == [i \in 1..Len(h) |-> h[i][1]]

\* data_rows = [d for _, d in history]
DataRows(h) == [i \in 1..Len(h) |-> h[i][2]]

\* a column that was computed, or the exception its comprehension raised
Column(ok, y) == [ok |-> ok, y |-> y]

\* [row.get(field, 0.0) for row in data_rows] (pulse.py:80, :106), and
\* [row.get(field, 0) / 1024 for row in data_rows] of the net chart
\* (pulse.py:63-64, :96-97), exact on whole multiples of 1024: a row that
\* is not a dict has no get
PulseColumn(chart, field, rows) ==
    IF \E i \in 1..Len(rows) : ~IsDict(rows[i])
    THEN Column(FALSE, <<>>)
    ELSE Column(TRUE,
            [i \in 1..Len(rows) |->
                IF chart = "net"
                THEN JsonNumber(DictGet(rows[i], field, JsonNumber(0)).num \div 1024)
                ELSE DictGet(rows[i], field, JsonNumber(0))])

\* [d[key] for d in data_rows] (sen66.py:146 and its siblings): a row
\* without the key raises KeyError
Sen66Column(key, rows) ==
    IF \E i \in 1..Len(rows) : ~HasKey(rows[i], key)
    THEN Column(FALSE, <<>>)
    ELSE Column(TRUE, [i \in 1..Len(rows) |-> Item(rows[i], key)])

\* the trace add_scatter(x=times, y=...) appends, named by its column
Trace(field, x, y) == [field |-> field, x |-> x, y |-> y]

\* what an effect leaves behind: its widget, its chart state, and whether
\* it returned (ok) or raised
Ran(widget, state, ok) == [widget |-> widget, state |-> state, ok |-> ok]

RECURSIVE AddScatters(_, _, _, _, _)
\* the add_scatter calls of a rebuild from the i-th on, each after the
\* comprehension of its y: the first column that raises ends them
AddScatters(data, fields, cols, i, times) ==
    IF i > Len(fields)
    THEN [data |-> data, ok |-> TRUE]
    ELSE IF ~cols[i].ok
         THEN [data |-> data, ok |-> FALSE]
         ELSE AddScatters(Append(data, Trace(fields[i], times, cols[i].y)),
                          fields, cols, i + 1, times)

RECURSIVE SetTraces(_, _, _, _)
\* widget.data[i].x = times; widget.data[i].y = [...] from the i-th trace
\* on: a trace that is not there raises IndexError, a column that raises
\* leaves the x it follows assigned
SetTraces(data, cols, i, times) ==
    IF i > Len(cols)
    THEN [data |-> data, ok |-> TRUE]
    ELSE IF i > Len(data)
         THEN [data |-> data, ok |-> FALSE]
         ELSE IF ~cols[i].ok
              THEN [data |-> [data EXCEPT ![i].x = times], ok |-> FALSE]
              ELSE SetTraces([data EXCEPT ![i].x = times, ![i].y = cols[i].y],
                             cols, i + 1, times)

\* the slip of a comparison that forgets the template
NeedsChartRebuildIgnoresTpl(state, chart, dev, tpl) ==
    state.chart # chart \/ state.dev # dev

\* needs_chart_rebuild (render_utils.py:37-38)
NeedsChartRebuild(state, chart, dev, tpl) ==
    state.chart # chart \/ state.dev # dev \/ state.tpl # tpl

\* the slip of a reset that clears the traces and keeps the chart state
ResetPulseChartKeepsState(widget, state) ==
    Ran([widget EXCEPT !.data = <<>>], state, TRUE)

\* _reset_pulse_chart (pulse.py:48-51) with reset_chart_state
\* (render_utils.py:33-34)
ResetPulseChart(widget, state) ==
    Ran([widget EXCEPT !.data = <<>>], NoChartState, TRUE)

\* _rebuild_pulse_chart (pulse.py:54-86): the traces are dropped, the
\* columns computed, the traces added, the template set and, last, the
\* chart state written
RebuildPulseChart(widget, state, chart, dev, tpl, times, rows) ==
    LET fields == PulseFields(chart)
        cols == [i \in 1..Len(fields) |-> PulseColumn(chart, fields[i], rows)]
    IN  IF \E i \in 1..Len(cols) : ~cols[i].ok
        THEN Ran([widget EXCEPT !.data = <<>>], state, FALSE)
        ELSE Ran([widget EXCEPT
                     !.data = AddScatters(<<>>, fields, cols, 1, times).data,
                     !.template = tpl],
                 [chart |-> chart, dev |-> dev, tpl |-> tpl], TRUE)

\* _update_pulse_chart_data (pulse.py:89-106): the net chart computes both
\* columns before it touches a trace, the others assign x first
UpdatePulseChartData(widget, state, chart, times, rows) ==
    LET fields == PulseFields(chart)
        cols == [i \in 1..Len(fields) |-> PulseColumn(chart, fields[i], rows)]
        set == SetTraces(widget.data, cols, 1, times)
    IN  IF chart = "net" /\ \E i \in 1..Len(cols) : ~cols[i].ok
        THEN Ran(widget, state, FALSE)
        ELSE Ran([widget EXCEPT !.data = set.data], state, set.ok)

\* the branch of a device without a pi-pulse stream (pulse.py:228-230), of
\* an empty history (:233-235) and of a history with rows (:237-247)
PulseChartPath(state, inp) ==
    IF inp.device \notin PulseDevices
    THEN "reset"
    ELSE IF history["pulse"][inp.device] = <<>>
         THEN "empty"
         ELSE IF NeedsChartRebuild(state, inp.pulse_chart, inp.device,
                                   inp.chart_style)
              THEN "rebuild"
              ELSE "update"

\* _update_pulse_chart (pulse.py:223-247)
UpdatePulseChart ==
    /\ "pulse" \in stale
    /\ LET path == PulseChartPath(pulse_state, input)
           h == history["pulse"][input.device]
           ran == CASE path = "reset" -> ResetPulseChart(pulse_widget, pulse_state)
                    [] path = "empty" -> Ran(pulse_widget, pulse_state, TRUE)
                    [] path = "rebuild" ->
                         RebuildPulseChart(pulse_widget, pulse_state,
                             input.pulse_chart, input.device, input.chart_style,
                             Times(h), DataRows(h))
                    [] path = "update" ->
                         UpdatePulseChartData(pulse_widget, pulse_state,
                             input.pulse_chart, Times(h), DataRows(h))
       IN  /\ pulse_widget' = ran.widget
           /\ pulse_state' = ran.state
           /\ lastRun' = [effect |-> "pulse", path |-> path, ok |-> ran.ok]
    /\ stale' = stale \ {"pulse"}
    /\ UNCHANGED <<consumer, store, tasks, sessionEnded, framed, input,
                   sen66_widget, sen66_state>>

\* the branch of a device without a SEN66 (sen66.py:111-116)
ResetSen66Chart(widget, state) ==
    Ran([widget EXCEPT !.data = <<>>, !.annotations = <<NoDataAnnotation>>],
        NoChartState, TRUE)

\* the slip of a history chosen without looking at the chart
RelevantHistoryIgnoresChart(chart, dev) == history["sen66"][dev]

\* the history the selected chart plots (sen66.py:118-123)
RelevantHistory(chart, dev) ==
    IF chart = "pm_nc" THEN history["sen66-nc"][dev] ELSE history["sen66"][dev]

\* the slip of a rebuild that leaves the annotations on the chart
RebuildSen66ChartKeepsAnnotations(widget, state, chart, dev, tpl, times, rows) ==
    LET fields == Sen66Fields(chart)
        cols == [i \in 1..Len(fields) |-> Sen66Column(fields[i], rows)]
        added == AddScatters(<<>>, fields, cols, 1, times)
    IN  Ran([widget EXCEPT !.data = added.data, !.template = tpl],
            [chart |-> chart, dev |-> dev, tpl |-> tpl], added.ok)

\* the rebuild branch (sen66.py:137-230): the traces and the annotations
\* are dropped, the template set and the chart state written (:138-141),
\* and then the traces are added one by one
RebuildSen66Chart(widget, state, chart, dev, tpl, times, rows) ==
    LET fields == Sen66Fields(chart)
        cols == [i \in 1..Len(fields) |-> Sen66Column(fields[i], rows)]
        added == AddScatters(<<>>, fields, cols, 1, times)
    IN  Ran([data |-> added.data, annotations |-> <<>>, template |-> tpl],
            [chart |-> chart, dev |-> dev, tpl |-> tpl], added.ok)

\* the data-only branch (sen66.py:232-268)
UpdateSen66ChartData(widget, state, chart, times, rows) ==
    LET fields == Sen66Fields(chart)
        cols == [i \in 1..Len(fields) |-> Sen66Column(fields[i], rows)]
        set == SetTraces(widget.data, cols, 1, times)
    IN  Ran([widget EXCEPT !.data = set.data], state, set.ok)

\* the branch _update_sen66_chart takes (sen66.py:111, :125, :131-137)
Sen66ChartPath(state, inp) ==
    IF inp.device \notin Sen66Devices
    THEN "reset"
    ELSE IF RelevantHistory(inp.sen66_chart, inp.device) = <<>>
         THEN "empty"
         ELSE IF NeedsChartRebuild(state, inp.sen66_chart, inp.device,
                                   inp.chart_style)
              THEN "rebuild"
              ELSE "update"

\* _update_sen66_chart (sen66.py:105-268)
UpdateSen66Chart ==
    /\ "sen66" \in stale
    /\ LET path == Sen66ChartPath(sen66_state, input)
           h == RelevantHistory(input.sen66_chart, input.device)
           ran == CASE path = "reset" -> ResetSen66Chart(sen66_widget, sen66_state)
                    [] path = "empty" -> Ran(sen66_widget, sen66_state, TRUE)
                    [] path = "rebuild" ->
                         RebuildSen66Chart(sen66_widget, sen66_state,
                             input.sen66_chart, input.device, input.chart_style,
                             Times(h), DataRows(h))
                    [] path = "update" ->
                         UpdateSen66ChartData(sen66_widget, sen66_state,
                             input.sen66_chart, Times(h), DataRows(h))
       IN  /\ sen66_widget' = ran.widget
           /\ sen66_state' = ran.state
           /\ lastRun' = [effect |-> "sen66", path |-> path, ok |-> ran.ok]
    /\ stale' = stale \ {"sen66"}
    /\ UNCHANGED <<consumer, store, tasks, sessionEnded, framed, input,
                   pulse_widget, pulse_state>>

\* the inputs an effect reads before anything else (pulse.py:224-226,
\* sen66.py:107-109)
InputsOf(effect) ==
    IF effect = "pulse"
    THEN {"device", "pulse_chart", "chart_style"}
    ELSE {"device", "sen66_chart", "chart_style"}

\* the user sets an input: the effects that read it are invalidated
SetInput(name, value) ==
    /\ stale = {}
    /\ input[name] # value
    /\ input' = [input EXCEPT ![name] = value]
    /\ stale' = {e \in Effects : name \in InputsOf(e)}
    /\ lastRun' = NoRun
    /\ UNCHANGED <<consumer, store, tasks, sessionEnded, framed, pulse_widget,
                   pulse_state, sen66_widget, sen66_state>>

\* the reactive.Value an effect read in its last run: pulse_latest[dev]
\* (pulse.py:232), and sen66_nc_latest[dev] or sen66_latest[dev] by the
\* chart (sen66.py:118-123), of a device of the kind
Watches(effect, kind, key) ==
    /\ key = input.device
    /\ kind = IF effect = "pulse"
              THEN "pulse"
              ELSE IF input.sen66_chart = "pm_nc" THEN "sen66-nc" ELSE "sen66"

\* a record with the columns of the pulse charts it carries, and a payload
\* that is valid JSON and no object
PulseRecords == {CpuRecord(1), JsonNumber(7)}

\* a record without humidity_rh and the other columns
Sen66Partial == JsonObject({<< <<"t", "e", "m", "p", "e", "r", "a", "t", "u", "r", "e", "_", "c">>, JsonNumber(1) >>})

\* a record with every column, and one with the first only
Sen66Records == {Sen66Default, Sen66Partial}

Sen66NcPartial == JsonObject({<< <<"n", "c", "_", "p", "m", "0", "_", "5", "_", "p", "c", "m", "3">>, JsonNumber(1) >>})

Sen66NcRecords == {Sen66NcDefault, Sen66NcPartial}

ChartRecords == PulseRecords \cup Sen66Records \cup Sen66NcRecords

RecordsOf(kind) ==
    CASE kind = "pulse" -> PulseRecords
      [] kind = "sen66" -> Sen66Records
      [] kind = "sen66-nc" -> Sen66NcRecords

\* a supervisor calls its handler with a record (consumer.py:33): the
\* record is stored and the effects that read its reactive.Value are
\* invalidated
Delivers(t, data) ==
    /\ stale = {}
    /\ clock < MaxRecords
    /\ data \in RecordsOf(KindOf(t))
    /\ OnData(t, data)
    /\ stale' = {e \in Effects : Watches(e, KindOf(t), KeyOf(t))}
    /\ lastRun' = NoRun
    /\ UNCHANGED <<consumer, tasks, sessionEnded, framed, input, pulse_widget,
                   pulse_state, sen66_widget, sen66_state>>

\* a session of the test configuration with no history yet
InitCharts ==
    /\ tasks = Tasks(ChartConfig)
    /\ InitOf({})
    /\ ServerInit(ChartConfig)
    /\ framed = NotFramed

ChartLabels == Range(Tasks(ChartConfig))

NextCharts ==
    \/ UpdatePulseChart
    \/ UpdateSen66Chart
    \/ \E c \in InputChoices : SetInput(c[1], c[2])
    \/ \E t \in ChartLabels : \E data \in ChartRecords : Delivers(t, data)

SpecCharts == InitCharts /\ [][NextCharts]_vars

(***************************************************************************)
(* The chart effects.                                                      *)
(***************************************************************************)
\* the step is a run of the effect
EffectRuns(effect) == effect \in stale /\ effect \notin stale'

\* the chart, the device and the template the inputs ask an effect for
Current(effect) ==
    [chart |-> IF effect = "pulse" THEN input.pulse_chart ELSE input.sen66_chart,
     dev |-> input.device,
     tpl |-> input.chart_style]

\* the rows the effect reads, spelled out on the histories
RowsFor(effect) ==
    IF effect = "pulse"
    THEN history["pulse"][input.device]
    ELSE IF input.sen66_chart = "pm_nc"
         THEN history["sen66-nc"][input.device]
         ELSE history["sen66"][input.device]

\* C22: a run of a chart effect while the selected device is not one of its
\* kind leaves its widget without traces and its chart state at None, None,
\* None, and the SEN66 widget with the no-data annotation and no other.
C22_InvalidDeviceResets ==
    [][/\ (EffectRuns("pulse") /\ input.device \notin PulseDevices) =>
              /\ pulse_widget'.data = <<>>
              /\ pulse_state' = NoChartState
       /\ (EffectRuns("sen66") /\ input.device \notin Sen66Devices) =>
              /\ sen66_widget'.data = <<>>
              /\ sen66_widget'.annotations = <<NoDataAnnotation>>
              /\ sen66_state' = NoChartState]_vars

\* the SEN66 chart was built once (it has a template), the device is now
\* one without a SEN66 and the effect has just run
C22_Witness ==
    /\ lastRun = [effect |-> "sen66", path |-> "reset", ok |-> TRUE]
    /\ input.device \notin Sen66Devices
    /\ sen66_widget.template # NoneValue
    /\ history["sen66"]["11"] # <<>>
    /\ sen66_widget.data = <<>>
    /\ sen66_state = NoChartState

\* C23: a run of a chart effect for a device of its kind whose history (for
\* the SEN66 chart: the one the selected chart plots) is empty changes
\* neither the widget nor the chart state.
C23_EmptyHistoryChangesNothing ==
    [][\A e \in Effects :
          (/\ EffectRuns(e)
           /\ input.device \in IF e = "pulse" THEN PulseDevices ELSE Sen66Devices
           /\ RowsFor(e) = <<>>) =>
              /\ pulse_widget' = pulse_widget
              /\ pulse_state' = pulse_state
              /\ sen66_widget' = sen66_widget
              /\ sen66_state' = sen66_state]_vars

\* the temperature chart is on the widget, the number-concentration chart
\* is selected and has no history: the run has kept the traces
C23_Witness ==
    /\ lastRun = [effect |-> "sen66", path |-> "empty", ok |-> TRUE]
    /\ input.sen66_chart = "pm_nc"
    /\ history["sen66-nc"]["11"] = <<>>
    /\ Len(sen66_widget.data) = 2
    /\ sen66_state.chart = "temp_hum"

\* the traces of a chart over a history, as a rebuild that returns leaves
\* them
TracesOf(effect, chart, h) ==
    LET fields == IF effect = "pulse" THEN PulseFields(chart) ELSE Sen66Fields(chart)
    IN  [i \in 1..Len(fields) |->
            Trace(fields[i], Times(h),
                  IF effect = "pulse"
                  THEN PulseColumn(chart, fields[i], DataRows(h)).y
                  ELSE Sen66Column(fields[i], DataRows(h)).y)]

\* C25: a run of a chart effect for a device of its kind with a history
\* that is not empty rebuilds exactly when the chart state differs from the
\* current chart, device and template in some component, and then no trace
\* of before is left; otherwise it changes nothing but the x and y of the
\* traces there are; a run that returns leaves the chart state equal to
\* the current triple and the traces of the chart over the history; and a
\* run on the chart state None, None, None rebuilds.
C25_RebuildIffStateDiffers ==
    [][\A e \in Effects :
          LET state == IF e = "pulse" THEN pulse_state ELSE sen66_state
              after == IF e = "pulse" THEN pulse_state' ELSE sen66_state'
              widget == IF e = "pulse" THEN pulse_widget ELSE sen66_widget
              drawn == IF e = "pulse" THEN pulse_widget' ELSE sen66_widget'
              differs == \/ state.chart # Current(e).chart
                         \/ state.dev # Current(e).dev
                         \/ state.tpl # Current(e).tpl
          IN  (/\ EffectRuns(e)
               /\ input.device \in IF e = "pulse" THEN PulseDevices ELSE Sen66Devices
               /\ RowsFor(e) # <<>>) =>
                  /\ lastRun'.path = IF differs THEN "rebuild" ELSE "update"
                  /\ state = NoChartState => lastRun'.path = "rebuild"
                  /\ lastRun'.path = "rebuild" =>
                        \A i \in 1..Len(drawn.data) :
                            drawn.data[i] = TracesOf(e, Current(e).chart, RowsFor(e))[i]
                  /\ lastRun'.path = "update" =>
                        /\ after = state
                        /\ drawn.annotations = widget.annotations
                        /\ drawn.template = widget.template
                        /\ Len(drawn.data) = Len(widget.data)
                        /\ \A i \in 1..Len(drawn.data) :
                              drawn.data[i].field = widget.data[i].field
                  /\ lastRun'.ok =>
                        /\ after = Current(e)
                        /\ drawn.data = TracesOf(e, Current(e).chart, RowsFor(e))]_vars

\* a second record has arrived for the chart on the widget: the run has
\* replaced the x and the y of its trace
C25_Witness ==
    /\ lastRun = [effect |-> "pulse", path |-> "update", ok |-> TRUE]
    /\ pulse_state = [chart |-> "temp", dev |-> "10", tpl |-> input.chart_style]
    /\ Len(pulse_widget.data) = 1
    /\ pulse_widget.data[1].x = <<1, 2>>

\* C28: whenever sen66_state records a chart, the SEN66 widget holds the
\* traces of that chart and no other: one per column, in order.
C28_StateMatchesTraces ==
    sen66_state.chart # NoneValue =>
        /\ Len(sen66_widget.data) = Len(Sen66Fields(sen66_state.chart))
        /\ \A i \in 1..Len(sen66_widget.data) :
              sen66_widget.data[i].field = Sen66Fields(sen66_state.chart)[i]

\* C29: where sen66_state records a chart the SEN66 widget has no
\* annotation, and where the widget shows the no-data annotation the chart
\* state is None, None, None.
C29_AnnotationOnlyWithoutChart ==
    /\ sen66_state.chart # NoneValue => sen66_widget.annotations = <<>>
    /\ sen66_widget.annotations # <<>> =>
          /\ sen66_widget.annotations = <<NoDataAnnotation>>
          /\ sen66_state = NoChartState

\* the device was 10 (the pulse chart is still built for it), where the
\* SEN66 chart showed the annotation; back on 11 the SEN66 effect has run
\* first and rebuilt
C29_Witness ==
    /\ lastRun = [effect |-> "sen66", path |-> "rebuild", ok |-> TRUE]
    /\ pulse_state.dev = "10"
    /\ input.device = "11"
    /\ sen66_state = Current("sen66")
    /\ sen66_widget.annotations = <<>>

====
